---- MODULE Spec2Model ----
(***************************************************************************)
(* Model of GoogleScraper/scraping.py: base URL resolution, the sleep      *)
(* schedule, ScrapeWorkerFactory batches and the SearchEngineScrape        *)
(* session.                                                                *)
(*                                                                         *)
(* Python strings that the code takes apart (the IP-rotation file) are     *)
(* sequences of one-character strings; None is the value None below.       *)
(***************************************************************************)
EXTENDS Integers, Sequences, FiniteSets, TLC

VARIABLES
    \* ---- _largest_sleep_range ----
    sleeping_ranges,   \* self.sleeping_ranges: dict n -> (min, max)
    sleep_arg,         \* argument of the last call of _largest_sleep_range
    sleep_range,       \* its return value
    sleep_called,      \* whether _largest_sleep_range has been called
    sleep_delay,       \* self.current_delay of the last detection_prevention_sleep, 0 before
    \* ---- get_base_search_url_by_search_engine ----
    config,            \* the config dict: key -> value, None when the key is absent
    files,             \* the file system: path -> content, None when no such file
    url_mode,          \* search_mode argument of the last call
    base_url,          \* return value of the last call
    url_called,        \* whether the function has been called
    \* ---- ScrapeWorkerFactory ----
    fac_mode,          \* self.mode
    fac_engine,        \* self.search_engine
    fac_jobs,          \* self.jobs: dict query -> list of page numbers, in insertion order
    added,             \* history: the jobs handed to add_job so far, in call order
    worker,            \* return value of the last get_worker, "not_called" before
    \* ---- SearchEngineScrape sessions and what they share ----
    check_proxies,     \* config.get('check_proxies', True)
    sess,              \* session id -> the fields of that SearchEngineScrape object
    db_lock,           \* the shared db_lock: 0 when free, else the session holding it
    serps,             \* number of SERPs committed to the shared database session
    progress_queue,    \* number of items put on the shared progress queue
    pool,              \* proxy -> [health, assigned_to, detections]: the proxy pool
    missed_total,      \* the missed keywords the orchestrator has collected
    \* ---- what surrounds the sessions ----
    cache_ok,          \* whether the cache collaborator is able to write
    stop_flag          \* the global stop signal

sleepVars == <<sleeping_ranges, sleep_arg, sleep_range, sleep_called, sleep_delay>>
urlVars   == <<config, files, url_mode, base_url, url_called>>
batchVars == <<fac_mode, fac_engine, fac_jobs, added, worker>>
sessVars  == <<check_proxies, sess, db_lock, serps, progress_queue, pool, missed_total>>
envVars   == <<cache_ok, stop_flag>>
vars      == <<sleepVars, urlVars, batchVars, sessVars, envVars>>

\* Python's None; never equal to a string (a sequence of one-character strings).
None == <<"<None>">>

(***************************************************************************)
(* Bounds                                                                  *)
(***************************************************************************)
MaxSleepKey     == 5    \* sleeping_ranges keys are drawn from 1..MaxSleepKey
MaxSearchNumber == 10   \* search_number arguments are drawn from 0..MaxSearchNumber
MaxFileLen      == 3    \* characters in the IP-rotation file
MaxJobs         == 3    \* add_job calls on one factory
MaxPage         == 2    \* page numbers of jobs are drawn from 1..MaxPage
NumQueries      == 3    \* queries in the batch of a single-session run
NumSessions     == 2    \* sessions running concurrently
NumProxies      == 2    \* proxies in the pool
MaxStartPage    == 3    \* start_page_pos arguments are drawn from -MaxStartPage..MaxStartPage
MaxNextPage     == 5    \* calls of next_page on one session

(***************************************************************************)
(* _largest_sleep_range                                                    *)
(***************************************************************************)
\* The (min, max) ranges a table may hold.
SleepRanges == {<<1, 2>>, <<2, 4>>, <<10, 20>>}

\* The tables: dicts from a set of positive keys to ranges.
SleepTables == UNION {[K -> SleepRanges] : K \in SUBSET (1..MaxSleepKey)}

SetMax(S) == CHOOSE m \in S : \A x \in S : x <= m
SetMin(S) == CHOOSE m \in S : \A x \in S : m <= x

\* sorted(keys, reverse=True)
RECURSIVE sorted_reverse(_)
sorted_reverse(S) ==
    IF S = {} THEN <<>>
    ELSE <<SetMax(S)>> \o sorted_reverse(S \ {SetMax(S)})

\* sorted(keys): the ascending order, i.e. reverse=True left out
RECURSIVE sorted_ascending(_)
sorted_ascending(S) ==
    IF S = {} THEN <<>>
    ELSE <<SetMin(S)>> \o sorted_ascending(S \ {SetMin(S)})

\* for n in s: if search_number % n == 0: return ranges[n]; falls through to (1, 2)
RECURSIVE sleep_range_loop(_, _, _)
sleep_range_loop(s, ranges, search_number) ==
    IF s = <<>> THEN <<1, 2>>
    ELSE IF search_number % Head(s) = 0 THEN ranges[Head(s)]
    ELSE sleep_range_loop(Tail(s), ranges, search_number)

largest_sleep_range_ascending(ranges, search_number) ==
    IF search_number # 0
    THEN sleep_range_loop(sorted_ascending(DOMAIN ranges), ranges, search_number)
    ELSE <<1, 2>>

largest_sleep_range(ranges, search_number) ==
    IF search_number # 0
    THEN sleep_range_loop(sorted_reverse(DOMAIN ranges), ranges, search_number)
    ELSE <<1, 2>>

SleepIdle ==
    /\ sleeping_ranges = <<>>
    /\ sleep_arg = 0
    /\ sleep_range = <<1, 2>>
    /\ sleep_called = FALSE
    /\ sleep_delay = 0

SleepInit ==
    /\ sleeping_ranges \in SleepTables
    /\ sleep_arg = 0
    /\ sleep_range = <<1, 2>>
    /\ sleep_called = FALSE
    /\ sleep_delay = 0

CallLargestSleepRange ==
    \E n \in 0..MaxSearchNumber :
        /\ sleep_arg' = n
        /\ sleep_range' = largest_sleep_range(sleeping_ranges, n)
        /\ sleep_called' = TRUE
        /\ UNCHANGED <<sleeping_ranges, sleep_delay>>

\* random.randrange(min, max) with the upper end included
randrange_inclusive(range) == range[1]..range[2]

\* random.randrange(min, max): min inclusive, max exclusive
randrange(range) == range[1]..(range[2] - 1)

\* detection_prevention_sleep: the values current_delay may take
detection_prevention_sleep(ranges, search_number) ==
    randrange(largest_sleep_range(ranges, search_number))

\* A session with some sleep table, right after __init__: search_number = 1
\* (here sleep_arg) and no delay drawn yet.
DelayInit ==
    /\ sleeping_ranges \in SleepTables
    /\ sleep_arg = 1
    /\ sleep_range = <<1, 2>>
    /\ sleep_called = FALSE
    /\ sleep_delay = 0

\* detection_prevention_sleep of a session whose search_number is sleep_arg
CallDetectionPreventionSleep ==
    /\ sleep_range' = largest_sleep_range(sleeping_ranges, sleep_arg)
    /\ sleep_called' = TRUE
    /\ sleep_delay' \in detection_prevention_sleep(sleeping_ranges, sleep_arg)
    /\ UNCHANGED <<sleeping_ranges, sleep_arg>>

\* after_search: self.search_number += 1
CountSearch ==
    /\ sleep_arg < MaxSearchNumber
    /\ sleep_arg' = sleep_arg + 1
    /\ UNCHANGED <<sleeping_ranges, sleep_range, sleep_called, sleep_delay>>

(***************************************************************************)
(* get_base_search_url_by_search_engine                                    *)
(***************************************************************************)
SEARCH_MODES == {"http", "selenium", "http-async"}

\* The engine whose URL is resolved.
Engine == "google"

\* Config keys: '{mode}_{engine}_search_url', '{engine}_search_url', '{engine}_ip_file'.
ModeUrlKey(mode, engine) == <<mode, engine, "search_url">>
EngineUrlKey(engine)     == <<engine, "search_url">>
IpFileKey(engine)        == <<engine, "ip_file">>

\* The mode-specific keys a configuration may carry (http-async has none).
ConfigKeys == {ModeUrlKey("http", Engine), ModeUrlKey("selenium", Engine),
               EngineUrlKey(Engine), IpFileKey(Engine)}

UrlA == <<"A">>
UrlB == <<"B">>
IpFilePath == <<"f">>

\* config.get(key, default)
config_get(cfg, key, default) ==
    IF key \in DOMAIN cfg /\ cfg[key] # None THEN cfg[key] ELSE default

\* Python truthiness of a str-or-None value
Truthy(v) == v # None /\ v # <<>>

\* os.path.exists(path)
path_exists(fs, path) == path \in DOMAIN fs /\ fs[path] # None

\* str.split('\n'): the pieces between newlines, empty pieces included
RECURSIVE split_newline(_, _)
split_newline(text, piece) ==
    IF text = <<>> THEN <<piece>>
    ELSE IF Head(text) = "\n" THEN <<piece>> \o split_newline(Tail(text), <<>>)
    ELSE split_newline(Tail(text), Append(piece, Head(text)))

\* The lines of the file that are not empty.
SeqRange(s) == {s[i] : i \in DOMAIN s}
NonEmptyLines(text) == {l \in SeqRange(split_newline(text, <<>>)) : l # <<>>}

\* The static URL with the two lookups swapped: engine key first.
specific_base_url_swapped(cfg, engine, mode) ==
    LET general == config_get(cfg, EngineUrlKey(engine), None)
    IN  IF ~Truthy(general)
        THEN config_get(cfg, ModeUrlKey(mode, engine), None)
        ELSE general

\* The static URL: the mode+engine key, else the engine key.
specific_base_url(cfg, engine, mode) ==
    LET specific == config_get(cfg, ModeUrlKey(mode, engine), None)
    IN  IF ~Truthy(specific)
        THEN config_get(cfg, EngineUrlKey(engine), None)
        ELSE specific

\* The set of values get_base_search_url_by_search_engine may return:
\* random.choice over the split file when the ip file exists, else the static URL.
get_base_search_url_by_search_engine(cfg, fs, engine, mode) ==
    LET ipfile == config_get(cfg, IpFileKey(engine), <<>>)
    IN  IF path_exists(fs, ipfile)
        THEN SeqRange(split_newline(fs[ipfile], <<>>))
        ELSE {specific_base_url(cfg, engine, mode)}

\* Texts of at most n characters over the alphabet {a, b, newline}.
FileChars == {"a", "b", "\n"}
Texts(n) == UNION {[1..k -> FileChars] : k \in 0..n}

\* The values a configuration may give a key.
ConfigValues(k) ==
    IF k = IpFileKey(Engine) THEN {None, <<>>, IpFilePath} ELSE {None, <<>>, UrlA, UrlB}

UrlIdle ==
    /\ config = <<>>
    /\ files = <<>>
    /\ url_mode = "http"
    /\ base_url = None
    /\ url_called = FALSE

UrlInit ==
    /\ config \in {c \in [ConfigKeys -> {None, <<>>, UrlA, UrlB, IpFilePath}] :
                      \A k \in ConfigKeys : c[k] \in ConfigValues(k)}
    /\ files \in [{IpFilePath} -> {None} \cup Texts(MaxFileLen)]
    /\ url_mode = "http"
    /\ base_url = None
    /\ url_called = FALSE

ResolveBaseUrl ==
    \E mode \in SEARCH_MODES :
        /\ url_mode' = mode
        /\ base_url' \in get_base_search_url_by_search_engine(config, files, Engine, mode)
        /\ url_called' = TRUE
        /\ UNCHANGED <<config, files>>

(***************************************************************************)
(* ScrapeWorkerFactory: is_suitabe, add_job                                *)
(***************************************************************************)
Engines == {"google", "bing"}
Queries == {"q1", "q2"}

\* A job as the factory reads it: job['query'], job['page_number'],
\* job['scrape_method'], job['search_engine'].
Jobs == [query : Queries, page_number : 1..MaxPage,
         scrape_method : {"http", "selenium"}, search_engine : Engines]

\* A Python dict kept in insertion order: a sequence of <<key, value>> pairs.
dict_keys(d) == [i \in DOMAIN d |-> d[i][1]]
dict_has(d, k) == \E i \in DOMAIN d : d[i][1] = k
dict_get(d, k) == d[CHOOSE i \in DOMAIN d : d[i][1] = k][2]
dict_set(d, k, v) ==
    IF dict_has(d, k)
    THEN [i \in DOMAIN d |-> IF d[i][1] = k THEN <<k, v>> ELSE d[i]]
    ELSE Append(d, <<k, v>>)

\* is_suitabe with 'or' in place of 'and'
is_suitabe_either(mode, engine, job) ==
    job.scrape_method = mode \/ job.search_engine = engine

is_suitabe(mode, engine, job) ==
    job.scrape_method = mode /\ job.search_engine = engine

\* add_job that assigns the page list instead of appending to it
add_job_replacing(jobs, job) ==
    dict_set(jobs, job.query, <<job.page_number>>)

\* add_job that skips a page number the query already has
add_job_unique(jobs, job) ==
    LET query == job.query
        page_number == job.page_number
        jobs1 == IF ~dict_has(jobs, query) THEN dict_set(jobs, query, <<>>) ELSE jobs
    IN  IF \E i \in DOMAIN dict_get(jobs1, query) : dict_get(jobs1, query)[i] = page_number
        THEN jobs1
        ELSE dict_set(jobs1, query, Append(dict_get(jobs1, query), page_number))

\* add_job: the new value of self.jobs
add_job(jobs, job) ==
    LET query == job.query
        page_number == job.page_number
        jobs1 == IF ~dict_has(jobs, query) THEN dict_set(jobs, query, <<>>) ELSE jobs
    IN  dict_set(jobs1, query, Append(dict_get(jobs1, query), page_number))

BatchIdle ==
    /\ fac_mode = "http"
    /\ fac_engine = "google"
    /\ fac_jobs = <<>>
    /\ added = <<>>
    /\ worker = "not_called"

\* ScrapeWorkerFactory.__init__
BatchInit ==
    /\ fac_mode \in SEARCH_MODES
    /\ fac_engine \in Engines
    /\ fac_jobs = <<>>
    /\ added = <<>>
    /\ worker = "not_called"

\* A direct call of add_job(job): no test of the job is made.
AddJob ==
    \E job \in Jobs :
        /\ Len(added) < MaxJobs
        /\ fac_jobs' = add_job(fac_jobs, job)
        /\ added' = Append(added, [job |-> job, checked |-> FALSE])
        /\ UNCHANGED <<fac_mode, fac_engine, worker>>

\* The grouping step: a job is added to the batch that is_suitabe for it.
AssignJob ==
    \E job \in Jobs :
        /\ Len(added) < MaxJobs
        /\ is_suitabe(fac_mode, fac_engine, job)
        /\ fac_jobs' = add_job(fac_jobs, job)
        /\ added' = Append(added, [job |-> job, checked |-> TRUE])
        /\ UNCHANGED <<fac_mode, fac_engine, worker>>

\* The modes a factory may be given: SEARCH_MODES, and "None" for the default
\* mode=None of __init__.
FactoryModes == SEARCH_MODES \cup {"None"}

\* get_worker that builds an HTTP session for every mode of SEARCH_MODES
get_worker_every_mode(jobs, mode) ==
    IF jobs # <<>>
    THEN IF mode = "selenium" THEN "SelScrape"
         ELSE IF mode \in SEARCH_MODES THEN "HttpScrape"
         ELSE "None"
    ELSE "None"

\* get_worker: the class of the session returned, "None" for None
get_worker(jobs, mode) ==
    IF jobs # <<>>
    THEN IF mode = "selenium" THEN "SelScrape"
         ELSE IF mode = "http" THEN "HttpScrape"
         ELSE "None"
    ELSE "None"

\* ScrapeWorkerFactory.__init__ with any mode
WorkerInit ==
    /\ fac_mode \in FactoryModes
    /\ fac_engine \in Engines
    /\ fac_jobs = <<>>
    /\ added = <<>>
    /\ worker = "not_called"

GetWorker ==
    /\ worker' = get_worker(fac_jobs, fac_mode)
    /\ UNCHANGED <<fac_mode, fac_engine, fac_jobs, added>>

(***************************************************************************)
(* The proxy pool (acquire, release, switch)                               *)
(***************************************************************************)
\* No proxy / no session.
NoProxy == 0

Proxies == 1..NumProxies

\* Detections of one proxy after which a further detection quarantines it.
DetectionThreshold == 1

\* The proxies acquire may hand out: not assigned, not quarantined, not dead.
pool_free(pl) ==
    {p \in DOMAIN pl : pl[p].assigned_to = 0 /\ pl[p].health \notin {"quarantined", "dead"}}

\* acquire: mark proxy p as assigned to session s.
pool_acquire(pl, p, s) == [pl EXCEPT ![p].assigned_to = s]

\* release(proxy, outcome): unassign; a detection counts, and a detection
\* beyond the threshold quarantines the proxy for the rest of the run.
pool_release(pl, p, outcome) ==
    IF p = NoProxy THEN pl
    ELSE IF outcome = "detected"
    THEN [pl EXCEPT ![p].assigned_to = 0,
                    ![p].detections = @ + 1,
                    ![p].health = IF pl[p].detections + 1 > DetectionThreshold
                                  THEN "quarantined" ELSE @]
    ELSE [pl EXCEPT ![p].assigned_to = 0]

\* Giving the proxy back to the pool as a healthy one.
pool_discard_returning(pl, p) ==
    IF p = NoProxy THEN pl
    ELSE [pl EXCEPT ![p].assigned_to = 0]

\* Discarding a proxy for the whole scrape.
pool_discard(pl, p) ==
    IF p = NoProxy THEN pl
    ELSE [pl EXCEPT ![p].assigned_to = 0, ![p].health = "quarantined"]

(***************************************************************************)
(* SearchEngineScrape                                                      *)
(***************************************************************************)
\* The sessions that exist in this run.
Sessions == DOMAIN sess

\* The jobs of a run over n queries with one page each, grouped by add_job.
QueryNames == <<"q1", "q2", "q3", "q4", "q5">>
RECURSIVE run_jobs(_)
run_jobs(n) ==
    IF n = 0 THEN <<>>
    ELSE add_job(run_jobs(n - 1),
                 [query |-> QueryNames[n], page_number |-> 1,
                  scrape_method |-> "http", search_engine |-> "google"])

\* __init__ that takes its proxy from the head of the proxies list
session_init_first_proxy(jobs, start_page_pos, proxy, proxies) ==
    [ pc |-> "idle",
      jobs |-> jobs,
      missed_keywords |-> {},
      query |-> "",
      search_number |-> 1,
      start_page_pos |-> IF start_page_pos < 1 THEN 1 ELSE start_page_pos,
      page_number |-> IF start_page_pos < 1 THEN 1 ELSE start_page_pos,
      proxy |-> IF proxies = {} THEN NoProxy ELSE SetMin(proxies),
      startable |-> TRUE,
      status |-> "successful",
      html |-> "",
      parser |-> TRUE,
      current_delay |-> 0,
      qi |-> 1, pi |-> 1,
      check_result |-> "none",
      waited |-> FALSE,
      stored |-> <<>>,
      detected_log |-> <<>>,
      start_arg |-> start_page_pos,
      next_pages |-> 0 ]

\* __init__: the fields of a new session (start_page_pos is non-zero here)
session_init(jobs, start_page_pos, proxy, proxies) ==
    [ pc |-> "idle",
      jobs |-> jobs,
      missed_keywords |-> {},
      query |-> "",
      search_number |-> 1,
      start_page_pos |-> IF start_page_pos < 1 THEN 1 ELSE start_page_pos,
      page_number |-> IF start_page_pos < 1 THEN 1 ELSE start_page_pos,
      proxy |-> proxy,
      startable |-> TRUE,
      status |-> "successful",
      html |-> "",
      parser |-> TRUE,
      current_delay |-> 0,
      \* parser: TRUE for the parser object of line 198, FALSE for None
      \* position of the run loop in jobs.items() and in pages_per_keyword
      qi |-> 1, pi |-> 1,
      \* waited: a detection has been waited out and the proxy is on its retry
      \* start_arg: the start_page_pos argument; next_pages: calls of next_page
      \* history: outcome of proxy_check, the (query, page, has results)
      \* stored, the queries detected on
      check_result |-> "none",
      waited |-> FALSE,
      stored |-> <<>>,
      detected_log |-> <<>>,
      start_arg |-> start_page_pos,
      next_pages |-> 0 ]

\* A session that has not been constructed yet.
NotCreated(jobs) == [session_init(jobs, 1, NoProxy, {}) EXCEPT !.pc = "new"]

\* with lock: entering is possible whenever, free or not
lock_enter_unlocked(lock, s) == TRUE

\* with self.db_lock: entering is possible when the lock is free
lock_enter(lock, s) == lock = 0

\* leaving the with block without releasing the lock
lock_exit_holding(lock, s) == lock

\* with self.db_lock: the lock is released when the block is left
lock_exit(lock, s) == IF lock = s THEN 0 ELSE lock

\* before_search that leaves startable alone after a failed check
before_search_ignoring(sn, check, proxy_ok) == sn

\* before_search: startable after the check (proxy_ok is proxy_check's result)
before_search(sn, check, proxy_ok) ==
    IF check /\ sn.proxy # NoProxy /\ ~proxy_ok
    THEN [sn EXCEPT !.startable = FALSE]
    ELSE sn

\* Where the session is inside `with self.db_lock` of store / update_proxy_status.
InDbSection(sn) == sn.pc \in {"ups_cs", "store_cs"}

SessIdle ==
    /\ check_proxies = TRUE
    /\ sess = <<>>
    /\ db_lock = 0
    /\ serps = 0
    /\ progress_queue = 0
    /\ pool = <<>>
    /\ missed_total = {}
    /\ cache_ok = TRUE
    /\ stop_flag = FALSE

\* The sleep table of the sessions' search engine.
SessionSleepingRanges == (1 :> <<1, 2>>) @@ (2 :> <<2, 4>>)

\* The queries from position i of jobs.items() on.
QueriesFrom(jobs, i) == {jobs[k][1] : k \in {k \in DOMAIN jobs : k >= i}}

\* The run loop's position after the current page: the next page of the query,
\* else the first page of the next query.
advance_page(sn) ==
    IF sn.pi < Len(sn.jobs[sn.qi][2])
    THEN [sn EXCEPT !.pi = @ + 1]
    ELSE [sn EXCEPT !.qi = @ + 1, !.pi = 1]

\* The run loop's position after giving up on the current query.
advance_query(sn) == [sn EXCEPT !.qi = @ + 1, !.pi = 1]

\* handle_request_denied that leaves the status alone
handle_request_denied_keeping(sn) == sn

\* handle_request_denied that reports a failure of the session
handle_request_denied_failed(sn) == [sn EXCEPT !.status = "failed"]

\* handle_request_denied that counts the denied request as a search
handle_request_denied_counting(sn) ==
    [sn EXCEPT !.status = "Malicious request detected", !.search_number = @ + 1]

\* handle_request_denied: the status left behind (the status code is dropped here)
handle_request_denied(sn) == [sn EXCEPT !.status = "Malicious request detected"]

\* The orchestrator constructs the session of a batch, with a proxy pulled
\* from the pool or with none.
CreateSession(s) ==
    /\ sess[s].pc = "new"
    /\ \E p \in pool_free(pool) \cup {NoProxy} :
        /\ sess' = [sess EXCEPT ![s] = session_init(sess[s].jobs, 1, p, DOMAIN pool)]
        /\ pool' = IF p = NoProxy THEN pool ELSE pool_acquire(pool, p, s)
    /\ UNCHANGED <<missed_total, check_proxies, db_lock, serps, progress_queue>>

\* run() calls before_search with nothing to check (line 389 is false): the
\* session stays startable and enters the search loop.
StartUnchecked(s) ==
    /\ sess[s].pc = "idle"
    /\ ~(check_proxies /\ sess[s].proxy # NoProxy)
    /\ LET sn == before_search(sess[s], check_proxies, FALSE)
       IN  sess' = [sess EXCEPT ![s] =
                      [sn EXCEPT !.pc = IF sn.startable THEN "running" ELSE "not_started"]]
    /\ UNCHANGED <<missed_total, check_proxies, db_lock, serps, progress_queue, pool>>

\* run() calls before_search, which calls proxy_check(proxy): the proxy answers
\* or it does not, and the outcome goes to update_proxy_status.
StartProxyCheck(s) ==
    /\ sess[s].pc = "idle"
    /\ check_proxies /\ sess[s].proxy # NoProxy
    /\ \E online \in BOOLEAN :
        sess' = [sess EXCEPT ![s].check_result = IF online THEN "passed" ELSE "failed",
                             ![s].pc = "ups_lock"]
    /\ UNCHANGED <<missed_total, check_proxies, db_lock, serps, progress_queue, pool>>

\* update_proxy_status: with self.db_lock
UpsLock(s) ==
    /\ sess[s].pc = "ups_lock"
    /\ lock_enter(db_lock, s)
    /\ db_lock' = s
    /\ sess' = [sess EXCEPT ![s].pc = "ups_cs"]
    /\ UNCHANGED <<missed_total, check_proxies, serps, progress_queue, pool>>

\* update_proxy_status: the proxy row is changed and committed, the with block
\* is left; before_search then sets startable and run() enters the search loop
\* only if the session is startable.
UpsCommit(s) ==
    /\ sess[s].pc = "ups_cs"
    /\ db_lock' = lock_exit(db_lock, s)
    /\ LET sn == before_search(sess[s], check_proxies, sess[s].check_result = "passed")
       IN  IF sn.startable
           THEN /\ sess' = [sess EXCEPT ![s] = [sn EXCEPT !.pc = "running"]]
                /\ pool' = pool
           ELSE /\ sess' = [sess EXCEPT ![s] = [sn EXCEPT !.pc = "not_started"]]
                /\ pool' = pool_release(pool, sn.proxy, "network_failure")
    /\ UNCHANGED <<missed_total, check_proxies, serps, progress_queue>>

\* The loop gives up the current query: it is missed, the next query follows.
query_failed(sn) ==
    [advance_query(sn) EXCEPT !.missed_keywords = @ \cup {sn.query}, !.pc = "running"]

\* The loop polls a stop signal that it never sees
stop_ignored(flag) == FALSE

\* The loop polls the global stop signal between queries and pages.
stop_observed(flag) == flag

\* The session stops on the stop signal: its unprocessed queries are missed.
stop_on_signal(sn) ==
    [sn EXCEPT !.missed_keywords = @ \cup QueriesFrom(sn.jobs, sn.qi), !.pc = "done"]

\* The loop over jobs.items() and pages_per_keyword: the next query and page,
\* or the end of the batch, or the stop on the global stop signal.
NextSearch(s) ==
    /\ sess[s].pc = "running"
    /\ LET sn == sess[s]
       IN  IF sn.qi > Len(sn.jobs)
           THEN /\ sess' = [sess EXCEPT ![s].pc = "done"]
                /\ pool' = pool_release(pool, sn.proxy, "ok")
           ELSE IF stop_observed(stop_flag)
           THEN /\ sess' = [sess EXCEPT ![s] = stop_on_signal(sn)]
                /\ pool' = pool_release(pool, sn.proxy, "ok")
           ELSE /\ sess' = [sess EXCEPT ![s].query = sn.jobs[sn.qi][1],
                                        ![s].page_number = sn.jobs[sn.qi][2][sn.pi],
                                        ![s].pc = "sleep"]
                /\ pool' = pool
    /\ UNCHANGED <<missed_total, check_proxies, db_lock, serps, progress_queue>>

\* detection_prevention_sleep
DetectionPreventionSleep(s) ==
    /\ sess[s].pc = "sleep"
    /\ \E d \in detection_prevention_sleep(sleeping_ranges, sess[s].search_number) :
        sess' = [sess EXCEPT ![s].current_delay = d, ![s].pc = "search"]
    /\ UNCHANGED <<missed_total, check_proxies, db_lock, serps, progress_queue, pool>>

\* store() before its lock: `if self.html: self.parser.parse(self.html)`, which
\* raises AttributeError when self.parser is None, `else: self.parser = None`
store_begin(sn) ==
    IF sn.html # ""
    THEN IF sn.parser THEN [sn EXCEPT !.pc = "store_lock"]
         ELSE [sn EXCEPT !.pc = "raised"]
    ELSE [sn EXCEPT !.parser = FALSE, !.pc = "store_lock"]

\* after_search that leaves the count of the search to a later step
after_search_begin_uncounted(sn, html) ==
    store_begin([sn EXCEPT !.html = html])

\* after_search up to the lock of store(): search_number += 1; html is what
\* store() hands to the parser
after_search_begin(sn, html) ==
    store_begin([sn EXCEPT !.search_number = @ + 1, !.html = html])

\* search(): the transport answers with a page with results or with an empty
\* body, and after_search begins; an exception that leaves after_search makes
\* the loop give up the query.
SearchAnswered(s) ==
    /\ sess[s].pc = "search"
    /\ \E html \in {"html", ""} :
        LET sn == [after_search_begin(sess[s], html) EXCEPT !.waited = FALSE]
        IN  sess' = [sess EXCEPT ![s] =
                       IF sn.pc = "raised" THEN query_failed(sn) ELSE sn]
    /\ UNCHANGED <<missed_total, check_proxies, db_lock, serps, progress_queue, pool>>

\* search(): the answer is classified as malicious; handle_request_denied.
SearchDetected(s) ==
    /\ sess[s].pc = "search"
    /\ sess' = [sess EXCEPT ![s] =
                  [handle_request_denied(sess[s]) EXCEPT
                      !.detected_log = Append(@, sess[s].query), !.pc = "denied"]]
    /\ UNCHANGED <<missed_total, check_proxies, db_lock, serps, progress_queue, pool>>

\* search(): the transport fails; the query is missed and the loop moves to
\* the next query.
SearchFailed(s) ==
    /\ sess[s].pc = "search"
    /\ sess' = [sess EXCEPT ![s] = query_failed(sess[s])]
    /\ UNCHANGED <<missed_total, check_proxies, db_lock, serps, progress_queue, pool>>

\* store: with self.db_lock
StoreLock(s) ==
    /\ sess[s].pc = "store_lock"
    /\ lock_enter(db_lock, s)
    /\ db_lock' = s
    /\ sess' = [sess EXCEPT ![s].pc = "store_cs"]
    /\ UNCHANGED <<missed_total, check_proxies, serps, progress_queue, pool>>

\* after_search after store(): `if self.progress_queue: self.progress_queue.put(1)`
progress_put(queue) == queue + 1

\* store: serps.append(serp); session.add(serp); session.commit(); the with
\* block is left on return, and after_search goes on to put one item on the
\* progress queue; cache_results is what remains of it.
StoreCommit(s) ==
    /\ sess[s].pc = "store_cs"
    /\ serps' = serps + 1
    /\ progress_queue' = progress_put(progress_queue)
    /\ db_lock' = lock_exit(db_lock, s)
    /\ sess' = [sess EXCEPT
                  ![s].stored = Append(@, <<sess[s].query, sess[s].page_number,
                                            sess[s].html # "">>),
                  ![s].pc = "stored"]
    /\ UNCHANGED <<missed_total, check_proxies, pool>>

\* cache_results where a failure of the cache collaborator ends the session
cache_results_fatal(sn, ok) ==
    IF ok THEN [sn EXCEPT !.pc = "running"] ELSE [sn EXCEPT !.pc = "done"]

\* cache_results: the call of cache_manager.cache_results returns, whether the
\* collaborator could write or only logged its failure
cache_results(sn, ok) == [sn EXCEPT !.pc = "running"]

\* cache_results: the cache manager works under the db_lock it is handed and
\* has released it on return; the loop then moves to the next page or query.
CacheResults(s) ==
    /\ sess[s].pc = "stored"
    /\ lock_enter(db_lock, s)
    /\ LET sn == cache_results(sess[s], cache_ok)
       IN  sess' = [sess EXCEPT ![s] =
                      IF sn.pc = "running"
                      THEN [advance_page(sn) EXCEPT !.pc = "running"]
                      ELSE sn]
    /\ UNCHANGED <<missed_total, check_proxies, db_lock, serps, progress_queue, pool>>

\* Detected, and the pool has another proxy: switch_proxy, the same query and
\* page are tried again.
SwitchProxy(s) ==
    /\ sess[s].pc = "denied"
    /\ \E p \in pool_free(pool) :
        /\ pool' = pool_acquire(pool_release(pool, sess[s].proxy, "detected"), p, s)
        /\ sess' = [sess EXCEPT ![s].proxy = p, ![s].waited = FALSE, ![s].pc = "sleep"]
    /\ UNCHANGED <<missed_total, check_proxies, db_lock, serps, progress_queue>>

\* Detected, and there is no other proxy in the pool: wait
\* {search_engine}_proxy_detected_timeout seconds and try the same proxy again.
WaitDetectedTimeout(s) ==
    /\ sess[s].pc = "denied"
    /\ pool_free(pool) = {}
    /\ ~sess[s].waited
    /\ sess' = [sess EXCEPT ![s].waited = TRUE, ![s].pc = "search"]
    /\ UNCHANGED <<missed_total, check_proxies, db_lock, serps, progress_queue, pool>>

\* The session gives up the current query only and goes on with the next one.
continue_after_discard(sn) ==
    [advance_query(sn) EXCEPT
        !.missed_keywords = @ \cup {sn.query},
        !.status = "successful",
        !.pc = "running"]

\* The session stops for lack of proxies: its unfinished queries are missed.
stop_after_discard(sn) ==
    [sn EXCEPT
        !.missed_keywords = @ \cup QueriesFrom(sn.jobs, sn.qi),
        !.status = "proxy_exhausted",
        !.pc = "done"]

\* Detected again after the waiting time: the proxy is discarded for the whole
\* scrape, no proxy is left for this session and it stops; its unfinished
\* queries are its missed keywords.
DiscardProxyAndStop(s) ==
    /\ sess[s].pc = "denied"
    /\ pool_free(pool) = {}
    /\ sess[s].waited
    /\ pool' = pool_discard(pool, sess[s].proxy)
    /\ sess' = [sess EXCEPT ![s] = stop_after_discard(sess[s])]
    /\ UNCHANGED <<missed_total, check_proxies, db_lock, serps, progress_queue>>

\* The orchestrator collects a finished session: its missed keywords are
\* aggregated and the session object is dropped.
Collect(s) ==
    /\ sess[s].pc \in {"done", "not_started"}
    /\ missed_total' = missed_total \cup sess[s].missed_keywords
    /\ sess' = [sess EXCEPT ![s] = [NotCreated(<<>>) EXCEPT !.pc = "collected"]]
    /\ UNCHANGED <<check_proxies, db_lock, serps, progress_queue, pool>>

\* next_page: self.start_page_pos += 1
next_page(sn) == [sn EXCEPT !.start_page_pos = @ + 1]

\* The non-zero start_page_pos arguments of __init__.
StartArgs == ((0 - MaxStartPage)..MaxStartPage) \ {0}

\* __init__ with a start_page_pos argument and no proxy.
Construct(s) ==
    /\ sess[s].pc = "new"
    /\ \E arg \in StartArgs :
        sess' = [sess EXCEPT ![s] = session_init(sess[s].jobs, arg, NoProxy, DOMAIN pool)]
    /\ UNCHANGED <<missed_total, check_proxies, db_lock, serps, progress_queue, pool>>

\* A call of next_page on a constructed session.
CallNextPage(s) ==
    /\ sess[s].pc = "idle"
    /\ sess[s].next_pages < MaxNextPage
    /\ sess' = [sess EXCEPT ![s] = [next_page(sess[s]) EXCEPT !.next_pages = @ + 1]]
    /\ UNCHANGED <<missed_total, check_proxies, db_lock, serps, progress_queue, pool>>

\* One session to be constructed, with a batch of one or more queries.
PageInit ==
    /\ check_proxies = TRUE
    /\ \E n \in 1..NumQueries : sess = [s \in {1} |-> NotCreated(run_jobs(n))]
    /\ db_lock = 0
    /\ serps = 0
    /\ progress_queue = 0
    /\ pool = <<>>
    /\ missed_total = {}

\* The orchestrator raises the global stop signal: connectivity is lost or the
\* pool is exhausted.
RaiseStop ==
    /\ ~stop_flag
    /\ stop_flag' = TRUE
    /\ UNCHANGED cache_ok

\* A fresh pool of n proxies.
new_pool(n) == [p \in 1..n |-> [health |-> "unchecked", assigned_to |-> 0, detections |-> 0]]

\* One session with a batch of NumQueries queries and a pool of one or more proxies.
SessInit ==
    /\ check_proxies \in BOOLEAN
    /\ sess = [s \in {1} |-> NotCreated(run_jobs(NumQueries))]
    /\ db_lock = 0
    /\ serps = 0
    /\ progress_queue = 0
    /\ \E n \in 1..NumProxies : pool = new_pool(n)
    /\ missed_total = {}

\* NumSessions sessions, one query each, over a shared pool, proxies checked.
ConcInit ==
    /\ check_proxies = TRUE
    /\ sess = [s \in 1..NumSessions |-> NotCreated(run_jobs(1))]
    /\ db_lock = 0
    /\ serps = 0
    /\ progress_queue = 0
    /\ pool = new_pool(NumProxies)
    /\ missed_total = {}

\* The cache collaborator works and no stop signal is raised.
EnvInit ==
    /\ cache_ok = TRUE
    /\ stop_flag = FALSE

\* The cache collaborator fails on every write.
CacheFailing ==
    /\ cache_ok = FALSE
    /\ stop_flag = FALSE

\* The sleep table is fixed while sessions run.
SleepFixed ==
    /\ sleeping_ranges = SessionSleepingRanges
    /\ sleep_arg = 0
    /\ sleep_range = <<1, 2>>
    /\ sleep_called = FALSE
    /\ sleep_delay = 0

(***************************************************************************)
(* Specifications                                                          *)
(***************************************************************************)
InitSleep == SleepInit /\ UrlIdle /\ BatchIdle /\ SessIdle
NextSleep == CallLargestSleepRange /\ UNCHANGED <<urlVars, batchVars, sessVars, envVars>>
SpecSleep == InitSleep /\ [][NextSleep]_vars

\* The sleeps of one session as its search_number grows.
InitDelay == DelayInit /\ UrlIdle /\ BatchIdle /\ SessIdle
NextDelay ==
    \/ CallDetectionPreventionSleep /\ UNCHANGED <<urlVars, batchVars, sessVars, envVars>>
    \/ CountSearch /\ UNCHANGED <<urlVars, batchVars, sessVars, envVars>>
SpecDelay == InitDelay /\ [][NextDelay]_vars

InitUrl == UrlInit /\ SleepIdle /\ BatchIdle /\ SessIdle
NextUrl == ResolveBaseUrl /\ UNCHANGED <<sleepVars, batchVars, sessVars, envVars>>
SpecUrl == InitUrl /\ [][NextUrl]_vars

InitBatch == BatchInit /\ SleepIdle /\ UrlIdle /\ SessIdle
NextBatch ==
    \/ AddJob /\ UNCHANGED <<sleepVars, urlVars, sessVars, envVars>>
    \/ AssignJob /\ UNCHANGED <<sleepVars, urlVars, sessVars, envVars>>
SpecBatch == InitBatch /\ [][NextBatch]_vars

\* A factory of any mode: jobs are added and get_worker is called.
InitWorker == WorkerInit /\ SleepIdle /\ UrlIdle /\ SessIdle
NextWorker ==
    \/ AddJob /\ UNCHANGED <<sleepVars, urlVars, sessVars, envVars>>
    \/ GetWorker /\ UNCHANGED <<sleepVars, urlVars, sessVars, envVars>>
SpecWorker == InitWorker /\ [][NextWorker]_vars

SessionStep(s) ==
    \/ CreateSession(s)
    \/ StartUnchecked(s)
    \/ StartProxyCheck(s)
    \/ UpsLock(s)
    \/ UpsCommit(s)
    \/ NextSearch(s)
    \/ DetectionPreventionSleep(s)
    \/ SearchAnswered(s)
    \/ SearchDetected(s)
    \/ SearchFailed(s)
    \/ StoreLock(s)
    \/ StoreCommit(s)
    \/ CacheResults(s)
    \/ SwitchProxy(s)
    \/ WaitDetectedTimeout(s)
    \/ DiscardProxyAndStop(s)
    \/ Collect(s)

Next ==
    \E s \in Sessions : SessionStep(s) /\ UNCHANGED <<sleepVars, urlVars, batchVars, envVars>>

\* A single session running its batch.
Init == SessInit /\ EnvInit /\ SleepFixed /\ UrlIdle /\ BatchIdle
Spec == Init /\ [][Next]_vars

\* A single session running its batch over a failing cache.
InitCache == SessInit /\ CacheFailing /\ SleepFixed /\ UrlIdle /\ BatchIdle
SpecCache == InitCache /\ [][Next]_vars

\* A single session running its batch while the stop signal may be raised; the
\* thread of the session is scheduled as long as it has a step to take.
NextCancel ==
    \/ Next
    \/ RaiseStop /\ UNCHANGED <<sleepVars, urlVars, batchVars, sessVars>>
SpecCancel == Init /\ [][NextCancel]_vars /\ WF_vars(Next)

\* The page cursor of a session: construction and calls of next_page.
InitPage == PageInit /\ EnvInit /\ SleepFixed /\ UrlIdle /\ BatchIdle
NextPage ==
    \E s \in Sessions :
        \/ Construct(s) /\ UNCHANGED <<sleepVars, urlVars, batchVars, envVars>>
        \/ CallNextPage(s) /\ UNCHANGED <<sleepVars, urlVars, batchVars, envVars>>
SpecPage == InitPage /\ [][NextPage]_vars

\* Concurrent sessions.
InitConc == ConcInit /\ EnvInit /\ SleepFixed /\ UrlIdle /\ BatchIdle
SpecConc == InitConc /\ [][Next]_vars

(***************************************************************************)
(* Properties of _largest_sleep_range (SpecSleep)                          *)
(***************************************************************************)
\* k divides n, stated with multiplication
Divides(k, n) == \E m \in 0..n : m * k = n

DividingKeys == {k \in DOMAIN sleeping_ranges : Divides(k, sleep_arg)}

\* C1: for search_count >= 1 the returned range is the one keyed by the largest
\* table key that evenly divides search_count; for search_count = 0, or when no
\* key divides it, the default range (1, 2) is returned.
C1_LargestDivisorRange ==
    sleep_called =>
        IF sleep_arg = 0 \/ DividingKeys = {}
        THEN sleep_range = <<1, 2>>
        ELSE \E k \in DividingKeys :
                /\ \A j \in DividingKeys : j <= k
                /\ sleep_range = sleeping_ranges[k]

\* C1 witness: search_count 10 with keys 2 and 5 both dividing it; the range of 5 is returned.
C1_Witness ==
    /\ sleep_called
    /\ sleep_arg = 10
    /\ {2, 5} \subseteq DOMAIN sleeping_ranges
    /\ sleeping_ranges[2] = <<2, 4>>
    /\ sleeping_ranges[5] = <<10, 20>>
    /\ sleep_range = <<10, 20>>

(***************************************************************************)
(* Properties of get_base_search_url_by_search_engine (SpecUrl)            *)
(***************************************************************************)
ModeUrl   == config_get(config, ModeUrlKey(url_mode, Engine), None)
EngineUrl == config_get(config, EngineUrlKey(Engine), None)
IpFile    == config_get(config, IpFileKey(Engine), <<>>)
IpFilePresent == path_exists(files, IpFile)

\* C2 as stated: without an IP-rotation file the mode+engine URL wins, then the
\* engine URL, and with neither configured a global default URL is returned.
C2_GlobalDefaultReturned ==
    (url_called /\ ~IpFilePresent) =>
        /\ Truthy(ModeUrl) => base_url = ModeUrl
        /\ (~Truthy(ModeUrl) /\ Truthy(EngineUrl)) => base_url = EngineUrl
        /\ (ModeUrl = None /\ EngineUrl = None) => Truthy(base_url)

\* C2 amended: without an IP-rotation file the mode+engine URL wins when it is
\* set and non-empty; otherwise the result is whatever the engine key holds,
\* which is None when that key is absent too: there is no global default.
C2_Precedence ==
    (url_called /\ ~IpFilePresent) =>
        /\ Truthy(ModeUrl) => base_url = ModeUrl
        /\ (~Truthy(ModeUrl) /\ Truthy(EngineUrl)) => base_url = EngineUrl
        /\ (~Truthy(ModeUrl) /\ EngineUrlKey(Engine) \in DOMAIN config
                /\ config[EngineUrlKey(Engine)] = <<>>) => base_url = <<>>
        /\ (~Truthy(ModeUrl) /\ EngineUrl = None) => base_url = None

\* C2 witness: both keys configured (A for http, B for the engine), mode http: A.
C2_Witness ==
    /\ url_called
    /\ ~IpFilePresent
    /\ url_mode = "http"
    /\ config[ModeUrlKey("http", Engine)] = UrlA
    /\ config[EngineUrlKey(Engine)] = UrlB
    /\ base_url = UrlA

\* C3: when the engine's IP-rotation file exists and is non-empty, the result
\* is one of the file's non-empty lines, never an empty string.
C3_RotationLineNonEmpty ==
    (url_called /\ IpFilePresent /\ NonEmptyLines(files[IpFile]) # {}) =>
        base_url \in NonEmptyLines(files[IpFile])

(***************************************************************************)
(* Properties of ScrapeWorkerFactory batches (SpecBatch)                   *)
(***************************************************************************)
\* The queries of a job history in first-seen order.
RECURSIVE FirstSeen(_, _)
FirstSeen(hist, seen) ==
    IF hist = <<>> THEN <<>>
    ELSE IF Head(hist).job.query \in seen THEN FirstSeen(Tail(hist), seen)
    ELSE <<Head(hist).job.query>>
            \o FirstSeen(Tail(hist), seen \cup {Head(hist).job.query})

\* The page numbers of the jobs of query q in a job history, in call order.
RECURSIVE PagesOf(_, _)
PagesOf(hist, q) ==
    IF hist = <<>> THEN <<>>
    ELSE IF Head(hist).job.query = q
         THEN <<Head(hist).job.page_number>> \o PagesOf(Tail(hist), q)
         ELSE PagesOf(Tail(hist), q)

\* How often x occurs in the sequence s.
Occurrences(s, x) == Cardinality({i \in DOMAIN s : s[i] = x})

\* C4: after any sequence of add_job calls the queries of the batch appear in
\* first-seen order and each query's page list holds the page numbers of that
\* query's jobs in the order they were added.
C4_FirstSeenOrderPagesAppended ==
    /\ dict_keys(fac_jobs) = FirstSeen(added, {})
    /\ \A q \in Queries :
          dict_has(fac_jobs, q) => dict_get(fac_jobs, q) = PagesOf(added, q)

\* C4 witness: jobs (q1,1), (q1,2), (q2,1) were added; q1 -> [1,2] comes before q2 -> [1].
C4_Witness ==
    /\ Len(added) = 3
    /\ added[1].job.query = "q1" /\ added[1].job.page_number = 1
    /\ added[2].job.query = "q1" /\ added[2].job.page_number = 2
    /\ added[3].job.query = "q2" /\ added[3].job.page_number = 1
    /\ fac_jobs = << <<"q1", <<1, 2>>>>, <<"q2", <<1>>>> >>

\* C5 as stated: the page list of a query never holds a page number twice.
C5_NoDuplicatePages ==
    \A i \in DOMAIN fac_jobs :
        \A m, n \in DOMAIN fac_jobs[i][2] :
            fac_jobs[i][2][m] = fac_jobs[i][2][n] => m = n

\* C5 amended: a page number is listed for a query once per add_job call that
\* carried that (query, page number); repeated jobs are not merged.
C5_PageListedOncePerCall ==
    \A q \in Queries : \A p \in 1..MaxPage :
        Occurrences(IF dict_has(fac_jobs, q) THEN dict_get(fac_jobs, q) ELSE <<>>, p)
            = Cardinality({i \in DOMAIN added :
                             added[i].job.query = q /\ added[i].job.page_number = p})

\* C5 witness: the job (q1, 1) was added twice and q1's page list is [1, 1].
C5_Witness ==
    /\ Len(added) = 2
    /\ \A i \in 1..2 : added[i].job.query = "q1" /\ added[i].job.page_number = 1
    /\ fac_jobs = << <<"q1", <<1, 1>>>> >>

\* C6 as stated: every job that add_job has put into the batch has the
\* factory's scrape mode and search engine.
C6_AllJobsMatchFactory ==
    \A i \in DOMAIN added :
        /\ added[i].job.scrape_method = fac_mode
        /\ added[i].job.search_engine = fac_engine

\* C6 amended: every job added after is_suitabe accepted it has the factory's
\* scrape mode and search engine; add_job itself makes no such test.
C6_SuitableJobsMatchFactory ==
    \A i \in DOMAIN added :
        added[i].checked =>
            /\ added[i].job.scrape_method = fac_mode
            /\ added[i].job.search_engine = fac_engine

\* C6 witness: a job accepted by is_suitabe is in the batch.
C6_Witness ==
    \E i \in DOMAIN added :
        /\ added[i].checked
        /\ dict_has(fac_jobs, added[i].job.query)
        /\ added[i].job.scrape_method = fac_mode
        /\ added[i].job.search_engine = fac_engine

(***************************************************************************)
(* Properties of a session's start (Spec)                                  *)
(***************************************************************************)
\* The positions of a session inside the search loop.
RunningPcs == {"running", "sleep", "search", "store_lock", "store_cs", "stored", "denied"}

\* C7: a session enters the search loop only if the pre-flight check passed:
\* after a failed proxy_check it is not startable, it never becomes startable
\* again and it is never in the loop; proxy_check is invoked only when checking
\* is enabled, and a session whose check was not invoked stays startable.
C7_RunsOnlyIfCheckPassed ==
    /\ [](\A s \in Sessions :
            LET sn == sess[s]
            IN  /\ (sn.check_result = "failed" /\ sn.pc \notin {"ups_lock", "ups_cs"})
                      => (~sn.startable /\ sn.pc = "not_started")
                /\ sn.pc \in RunningPcs => (sn.startable /\ sn.check_result # "failed")
                /\ sn.check_result # "none" => check_proxies
                /\ sn.check_result = "none" => sn.startable)
    /\ [][\A s \in Sessions :
            /\ (sess[s].pc = "idle" /\ sess[s].proxy = NoProxy)
                  => (sess'[s].check_result = "none" /\ sess'[s].pc # "ups_lock")
            /\ (~sess[s].startable /\ sess'[s].pc # "collected")
                  => ~sess'[s].startable]_vars

\* C7 witness: the proxy check was enabled and failed; the session is not
\* startable and has not entered the loop.
C7_Witness ==
    \E s \in Sessions :
        /\ check_proxies
        /\ sess[s].proxy # NoProxy
        /\ sess[s].check_result = "failed"
        /\ ~sess[s].startable
        /\ sess[s].pc = "not_started"

(***************************************************************************)
(* Properties of concurrent sessions (SpecConc)                            *)
(***************************************************************************)
\* C8: at most one session at a time is inside the with-db_lock sections of
\* store and update_proxy_status, that session holds db_lock, and a SERP is
\* committed only by the session inside the section.
C8_DbSectionExclusive ==
    /\ [](\A s, t \in Sessions :
            /\ (InDbSection(sess[s]) /\ InDbSection(sess[t])) => s = t
            /\ InDbSection(sess[s]) => db_lock = s)
    /\ [][serps' # serps =>
            \E s \in Sessions :
                /\ db_lock = s
                /\ sess[s].pc = "store_cs"
                /\ \A t \in Sessions \ {s} : ~InDbSection(sess[t])]_vars

\* C8 witness: one session is inside store's section while another waits for
\* the lock.
C8_Witness ==
    \E s, t \in Sessions :
        /\ s # t
        /\ sess[s].pc = "store_cs"
        /\ db_lock = s
        /\ sess[t].pc \in {"store_lock", "ups_lock"}

\* A session that holds a reference to its proxy: constructed and not finished.
Active(sn) == sn.pc \notin {"new", "done", "not_started", "collected"}

\* C9: no proxy is referenced by two active sessions, and the proxy of an
\* active session is the one the pool has assigned to it.
C9_ProxyHeldByOneSession ==
    \A s, t \in Sessions :
        (Active(sess[s]) /\ sess[s].proxy # NoProxy) =>
            /\ pool[sess[s].proxy].assigned_to = s
            /\ (t # s /\ Active(sess[t])) => sess[t].proxy # sess[s].proxy

\* C9 witness: two active sessions hold different proxies, one of them
\* obtained by a switch after a detection.
C9_Witness ==
    \E s, t \in Sessions :
        /\ s # t
        /\ Active(sess[s]) /\ Active(sess[t])
        /\ sess[s].proxy # NoProxy /\ sess[t].proxy # NoProxy
        /\ sess[s].detected_log # <<>>

(***************************************************************************)
(* The three-query scenario (Spec)                                         *)
(***************************************************************************)
\* The scenario of C10: a pool of one proxy, held by the session; the first
\* query was stored; the second query was detected, waited out, retried and
\* detected again, so that the proxy was discarded; the session has ended.
DetectedTwiceOnSecondQuery(sn) ==
    /\ DOMAIN pool = {1}
    /\ sn.proxy = 1
    /\ pool[1].health = "quarantined"
    /\ sn.detected_log = <<sn.jobs[2][1], sn.jobs[2][1]>>
    /\ \E i \in DOMAIN sn.stored : sn.stored[i][1] = sn.jobs[1][1]
    /\ sn.pc = "done"

ScheduledRange(n) ==
    LET keys == {k \in DOMAIN sleeping_ranges : Divides(k, n)}
    IN  IF n = 0 \/ keys = {} THEN <<1, 2>> ELSE sleeping_ranges[SetMax(keys)]

\* C19: the delay drawn by detection_prevention_sleep is at least the minimum
\* and less than the maximum of the range the schedule fixes for the session's
\* search_number, the default range (1, 2) included.
C19_DelayInScheduledRange ==
    [][sleep_delay' # sleep_delay =>
        /\ ScheduledRange(sleep_arg')[1] <= sleep_delay'
        /\ sleep_delay' < ScheduledRange(sleep_arg')[2]]_vars

\* C19 witness: search_number 10 under keys 2 and 5, and the largest delay of
\* the range (10, 20) was drawn.
C19_Witness ==
    /\ sleep_arg = 10
    /\ {2, 5} \subseteq DOMAIN sleeping_ranges
    /\ sleeping_ranges[5] = <<10, 20>>
    /\ sleep_delay = 19

(***************************************************************************)
(* Detection with no replacement proxy (Spec)                              *)
(***************************************************************************)
\* C11: a session detected while the pool has no other proxy waits once and
\* tries the same query with the same proxy again; detected again on that
\* retry, it stops with status proxy_exhausted, its unfinished queries are its
\* missed keywords, and its proxy is discarded: quarantined, unassigned, and
\* never handed out again.
C11_WaitRetryOnceThenDiscard ==
    /\ [][\A s \in Sessions :
            (sess[s].pc = "denied" /\ pool_free(pool) = {} /\ sess'[s] # sess[s]) =>
                IF ~sess[s].waited
                THEN /\ sess'[s].pc = "search"
                     /\ sess'[s].waited
                     /\ sess'[s].proxy = sess[s].proxy
                     /\ sess'[s].query = sess[s].query
                     /\ sess'[s].page_number = sess[s].page_number
                     /\ pool' = pool
                ELSE /\ sess'[s].pc = "done"
                     /\ sess'[s].status = "proxy_exhausted"
                     /\ QueriesFrom(sess[s].jobs, sess[s].qi) \subseteq sess'[s].missed_keywords
                     /\ sess[s].query \in sess'[s].missed_keywords
                     /\ sess[s].proxy # NoProxy =>
                            /\ pool'[sess[s].proxy].health = "quarantined"
                            /\ pool'[sess[s].proxy].assigned_to = 0]_vars
    /\ [][\A p \in DOMAIN pool :
            pool[p].health = "quarantined" =>
                /\ pool'[p].health = "quarantined"
                /\ pool'[p].assigned_to = 0]_vars

\* C11 witness: a session with a proxy has waited, was detected again and has
\* stopped; its proxy is quarantined and queries it never reached are missed.
C11_Witness ==
    \E s \in Sessions :
        /\ sess[s].pc = "done"
        /\ sess[s].waited
        /\ sess[s].status = "proxy_exhausted"
        /\ sess[s].proxy # NoProxy
        /\ pool[sess[s].proxy].health = "quarantined"
        /\ Len(sess[s].detected_log) >= 2
        /\ sess[s].qi < Len(sess[s].jobs)
        /\ QueriesFrom(sess[s].jobs, sess[s].qi) \subseteq sess[s].missed_keywords

(***************************************************************************)
(* The status of a session (Spec)                                          *)
(***************************************************************************)
\* The session object exists: constructed and not yet collected.
Exists(sn) == sn.pc \notin {"new", "collected"}

\* C12 as stated: a session reports status successful only once all queries
\* and pages of its batch have been processed; idle, not started or in the
\* middle of its run it does not.
C12_SuccessfulOnlyAfterCompletion ==
    \A s \in Sessions :
        (Exists(sess[s]) /\ sess[s].status = "successful") =>
            /\ sess[s].pc = "done"
            /\ sess[s].qi > Len(sess[s].jobs)

\* C12 amended: the status is successful from construction on, whatever the
\* session is doing, for exactly as long as no request of the session has been
\* classified as malicious.
C12_SuccessfulUntilDenied ==
    \A s \in Sessions :
        sess[s].status = "successful" <=> sess[s].detected_log = <<>>

\* C12 witness: a session that failed its proxy check and never ran reports
\* status successful.
C12_Witness ==
    \E s \in Sessions :
        /\ sess[s].pc = "not_started"
        /\ ~sess[s].startable
        /\ sess[s].search_number = 1
        /\ sess[s].status = "successful"

\* C13 as stated: the status is always one of running, successful, failed,
\* proxy_exhausted, also after handle_request_denied.
C13_StatusInEnum ==
    \A s \in Sessions :
        sess[s].status \in {"running", "successful", "failed", "proxy_exhausted"}

\* C13 amended: the status is successful, the malicious-request text of
\* handle_request_denied, or proxy_exhausted; right after
\* handle_request_denied it is the malicious-request text, and
\* proxy_exhausted is the status of stopped sessions only.
C13_StatusValues ==
    \A s \in Sessions :
        /\ sess[s].status \in {"successful", "Malicious request detected", "proxy_exhausted"}
        /\ sess[s].pc = "denied" => sess[s].status = "Malicious request detected"
        /\ sess[s].status = "proxy_exhausted" => sess[s].pc = "done"

\* C13 witness: handle_request_denied has just run.
C13_Witness ==
    \E s \in Sessions :
        /\ sess[s].pc = "denied"
        /\ sess[s].detected_log # <<>>
        /\ sess[s].status = "Malicious request detected"

(***************************************************************************)
(* after_search: store, progress signal, cache (Spec, SpecCache)           *)
(***************************************************************************)
\* Where a session is between two runs of after_search, or at its end.
BetweenSearches(sn) == sn.pc \in {"running", "sleep", "search", "denied", "done"}

Last(seq) == seq[Len(seq)]

\* C14: between searches the number of items put on the progress queue is
\* search_number - 1, and no item is put for a search whose result was not
\* stored: the items never outnumber the committed SERPs.
C14_OneSignalPerSearch ==
    /\ progress_queue <= serps
    /\ \A s \in Sessions :
          (Exists(sess[s]) /\ BetweenSearches(sess[s])) =>
              progress_queue = sess[s].search_number - 1

C16_StoreDegradesGracefully ==
    \A s \in Sessions :
        /\ (sess[s].pc = "stored" /\ sess[s].html = "") =>
              /\ Last(sess[s].stored) = <<sess[s].query, sess[s].page_number, FALSE>>
              /\ db_lock # s
        /\ BetweenSearches(sess[s]) =>
              Len(sess[s].stored) = sess[s].search_number - 1

(***************************************************************************)
(* Cancellation (SpecCancel)                                               *)
(***************************************************************************)
NoSessionRunning == \A s \in Sessions : sess[s].pc \notin RunningPcs

\* C17: once the stop signal is raised every running session eventually
\* terminates; a session that polls the raised signal between two pages starts
\* no further query or page but stops, a request in flight when the signal is
\* raised is still carried through, and the queries a stopped session has not
\* processed are its missed keywords.
C17_CooperativeCancellation ==
    /\ stop_flag ~> NoSessionRunning
    /\ [][\A s \in Sessions :
            (stop_flag /\ sess[s].pc = "running" /\ sess'[s] # sess[s]) =>
                /\ sess'[s].pc = "done"
                /\ sess'[s].stored = sess[s].stored
                /\ sess'[s].search_number = sess[s].search_number
                /\ QueriesFrom(sess[s].jobs, sess[s].qi) \subseteq sess'[s].missed_keywords]_vars
    /\ [][\A s \in Sessions :
            (stop_flag /\ sess[s].pc \in {"store_lock", "store_cs", "stored"}
                       /\ sess'[s] # sess[s]) =>
                sess'[s].pc \in {"store_cs", "stored", "running"}]_vars
    /\ [](\A s \in Sessions :
            sess[s].pc = "done" =>
                QueriesFrom(sess[s].jobs, sess[s].qi) \subseteq sess[s].missed_keywords)

\* C17 witness: the signal was raised, the session has stored its first query
\* and has stopped before the second one; the second and third are missed.
C17_Witness ==
    /\ stop_flag
    /\ \E s \in Sessions :
          /\ sess[s].pc = "done"
          /\ sess[s].qi = 2
          /\ Len(sess[s].stored) = 1
          /\ sess[s].detected_log = <<>>
          /\ sess[s].missed_keywords = QueriesFrom(sess[s].jobs, 2)

(***************************************************************************)
(* A denied request (Spec)                                                 *)
(***************************************************************************)
\* What a denied request must not move: the search counter, the page cursor,
\* the current query, the loop position and the missed keywords.
Progress(sn) ==
    <<sn.search_number, sn.page_number, sn.start_page_pos, sn.query,
      sn.missed_keywords, sn.qi, sn.pi, sn.stored>>

\* C18: handle_request_denied, and the retry of the same query and page that
\* follows it (with a switched proxy, or with the same proxy after the wait),
\* leave search_number, page_number, start_page_pos, the current query and
\* missed_keywords unchanged.
C18_DeniedDoesNotAdvance ==
    [][\A s \in Sessions :
        \/ sess[s].pc = "search" /\ sess'[s].pc = "denied"
        \/ sess[s].pc = "denied" /\ sess'[s].pc \in {"sleep", "search"}
        \/ sess[s].pc = "sleep" /\ sess'[s].pc = "search"
        => Progress(sess'[s]) = Progress(sess[s])]_vars

\* C18 witness: the second query was denied, the proxy was switched and the
\* same query is being requested again; the search counter still counts the
\* first query only.
C18_Witness ==
    \E s \in Sessions :
        /\ sess[s].pc = "search"
        /\ sess[s].detected_log = <<sess[s].jobs[2][1]>>
        /\ sess[s].query = sess[s].jobs[2][1]
        /\ sess[s].proxy # NoProxy
        /\ pool[sess[s].proxy].detections = 0
        /\ \E p \in DOMAIN pool : pool[p].detections = 1
        /\ sess[s].search_number = 2
        /\ sess[s].missed_keywords = {}

(***************************************************************************)
(* Locks (SpecConc)                                                        *)
(***************************************************************************)
\* Where a session is about to take db_lock: in update_proxy_status, in store,
\* or in the cache manager called by cache_results.
WaitsForDbLock(sn) == sn.pc \in {"ups_lock", "store_lock", "stored"}

\* The shared locks a session holds: db_lock inside the with blocks; the
\* progress queue is locked by put alone, and cache_lock is never taken.
HeldLocks(s) == IF db_lock = s THEN {"db_lock"} ELSE {}

C22_WorkerIffJobsAndRunnableMode ==
    [][worker' # worker =>
        /\ worker' \in {"SelScrape", "HttpScrape", "None"}
        /\ worker' # "None" <=>
              (Len(added) >= 1 /\ fac_mode \in {"selenium", "http"})
        /\ (added = <<>> \/ fac_mode = "http-async") => worker' = "None"]_vars

\* C22 witness: a factory of mode http-async with a job has been asked for
\* its worker and returned None.
C22_Witness ==
    /\ fac_mode = "http-async"
    /\ fac_jobs # <<>>
    /\ worker = "None"

(***************************************************************************)
(* The page cursor (SpecPage)                                              *)
(***************************************************************************)
\* The page the next search request asks for: self.page_number, `the page
\* where we are right now`, which is also what cache_results files the
\* request under.
RequestedPage(sn) == sn.page_number

\* The first page of a session constructed with a non-zero argument.
InitialPage(arg) == IF arg < 1 THEN 1 ELSE arg

\* C23: after construction page_number = start_page_pos, and start_page_pos is
\* at least 1 for a non-zero argument; after k calls of next_page the page
\* the next search request asks for is the initial page + k.
C23_NextPageAdvancesRequest ==
    \A s \in Sessions :
        Exists(sess[s]) =>
            /\ sess[s].start_page_pos >= 1
            /\ sess[s].next_pages = 0 => sess[s].page_number = sess[s].start_page_pos
            /\ RequestedPage(sess[s]) = InitialPage(sess[s].start_arg) + sess[s].next_pages

\* What the code does keep: the clamp and page_number = start_page_pos at
\* construction, next_page moving start_page_pos only, page_number staying.
PageCursorAsCoded ==
    \A s \in Sessions :
        Exists(sess[s]) =>
            /\ sess[s].start_page_pos = InitialPage(sess[s].start_arg) + sess[s].next_pages
            /\ sess[s].page_number = InitialPage(sess[s].start_arg)

====
